---- MODULE Spec2Model ----
(***************************************************************************)
(* Model of the C++ toolchain of devchain (src/devchain_toolchains/cpp.py) *)
(* over an abstract project directory.                                     *)
(*                                                                         *)
(* The state is the project directory (fs) and a record of the last call   *)
(* (last): the operation, its arguments, what it returned or raised, and   *)
(* the log of the things it did (commands spawned, executables run,        *)
(* removals).  Every method of class Cpp is one operator from a directory  *)
(* state, its arguments and the outcomes of the external processes to the  *)
(* directory state after the call, the Result and the log; one action per  *)
(* method applies it.                                                      *)
(*                                                                         *)
(* Directory layout (paths keep their kind: tools/conan and build are      *)
(* directories or absent, CMakeLists.txt, the profiles and                 *)
(* compile_commands.json are files or absent):                             *)
(*   fs.cmake    content of <root>/CMakeLists.txt                          *)
(*   fs.conan    whether the directory <root>/tools/conan exists           *)
(*   fs.local    content of <root>/tools/conan/<settings>                  *)
(*   fs.build    whether the directory <root>/build exists                 *)
(*   fs.sub      per settings name, the state of <root>/build/<settings>   *)
(*   fs.exes     how many of ExeList exist under build/<default settings>  *)
(*   fs.rootcc   which build's compile_commands.json lies in <root>        *)
(***************************************************************************)
EXTENDS Naturals, Sequences, FiniteSets, TLC

VARIABLES fs, last

vars == <<fs, last>>

-----------------------------------------------------------------------------
(* StatusCode and ToolchainStatus, utils/types.py *)

SUCCESS == "SUCCESS"
ERROR_INTERNAL == "ERROR_INTERNAL"
ERROR_INVALID_CONFIG == "ERROR_INVALID_CONFIG"
ERROR_COMMAND_FAILED == "ERROR_COMMAND_FAILED"

NOT_AVAILABLE == "NOT AVAILABLE"
AVAILABLE == "AVAILABLE"

\* The code field of a call that raised instead of returning a Result.
NoResult == "(raised)"

-----------------------------------------------------------------------------
(* Names *)

Root == "/project"
BuildDirectory == Root \o "/build"
ToolsConanDirectory == Root \o "/tools/conan"

DefaultSettings == "clang14__x86_64-pc-linux-elf__release"
\* A profile that exists only as a project-local override; its name has no
\* "__<token>" at the end.
LocalSettings == "gcc12-x86_64-debug"
\* A name that is a file in neither settings directory.
UnknownSettings == "msvc__nowhere"

SettingsNames == {DefaultSettings, LocalSettings, UnknownSettings}

\* The file names of the bundled settings directory (package data).
BundledSettings == {DefaultSettings}

Tools == <<"clang-tidy", "gtest", "benchmark", "asan", "msan", "tsan">>

ToolNames == {Tools[i] : i \in 1..Len(Tools)} \cup {"valgrind"}

\* Executables a compile can leave under build/<default settings>; the first
\* two share a base name.
MaxExes == 3

ExeList ==
  << [dir |-> "unit", stem |-> "core", suffix |-> "-test"],
     [dir |-> "e2e", stem |-> "core", suffix |-> "-test"],
     [dir |-> "perf", stem |-> "core", suffix |-> "-bench"],
     [dir |-> "e2e", stem |-> "core", suffix |-> "-bench"],
     [dir |-> "perf", stem |-> "io", suffix |-> "-test"] >>

ExeIndex == 1..MaxExes

Basename(i) == ExeList[i].stem \o ExeList[i].suffix

ExePath(build_directory, i) ==
  build_directory \o "/" \o ExeList[i].dir \o "/" \o Basename(i)

-----------------------------------------------------------------------------
(* The project directory *)

NoSub == [exists |-> FALSE, toolchain |-> FALSE, cc |-> FALSE]

EmptyDirectory ==
  [ cmake |-> "absent",
    conan |-> FALSE,
    local |-> [s \in SettingsNames |-> "absent"],
    build |-> FALSE,
    sub |-> [s \in SettingsNames |-> NoSub],
    exes |-> 0,
    rootcc |-> "absent" ]

\* Mutant: only the project descriptor counts as content.
RootNonEmptyMarkerOnly(f) == f.cmake # "absent"

\* os.listdir(root) has at least one entry.
RootNonEmpty(f) ==
  f.cmake # "absent" \/ f.conan \/ f.build \/ f.rootcc # "absent"

\* The bundled project template: a CMakeLists.txt and the directory tools/conan.
TemplateCMake == "template"

CopyTemplate(f) == [f EXCEPT !.cmake = TemplateCMake, !.conan = TRUE]

-----------------------------------------------------------------------------
(* Results *)

NoInfo == [k \in {} |-> ""]

Put(info, k, v) == [x \in DOMAIN info \cup {k} |-> IF x = k THEN v ELSE info[x]]

Result(code, message, info) == [code |-> code, message |-> message, info |-> info]

Ok(result) == result.code = SUCCESS

\* What a method does: the directory afterwards, whether it raised, the Result
\* it returned, and the log of its steps.
Returned(f, result, log) == [fs |-> f, exc |-> FALSE, result |-> result, log |-> log]

Raised(f, log) ==
  [fs |-> f, exc |-> TRUE, result |-> Result(NoResult, "FileNotFoundError", NoInfo),
   log |-> log]

Event(stage, cmd, rc) == [stage |-> stage, cmd |-> cmd, rc |-> rc]

-----------------------------------------------------------------------------
(* info *)

\* Mutant: the marker is looked for under a name no project has.
HasCppToolchainNever(f) == FALSE

\* __has_cpp_toolchain: the root is the directory the command runs in.
HasCppToolchain(f) == f.cmake # "absent"

LocalProfiles(f) == {s \in SettingsNames : f.local[s] # "absent"}

\* os.listdir(tools/conan) raises FileNotFoundError when the directory is missing.
SettingsRaises(f) == ~f.conan

Settings(f) == BundledSettings \cup LocalProfiles(f)

ToolsOf == {Tools[i] : i \in 1..Len(Tools)}

ToolchainOption(name, values) == [name |-> name, values |-> values]

\* Mutant: the run options are filled in before the marker is looked for.
InfoOptionsFirst(f) ==
  IF ~HasCppToolchain(f)
  THEN [exc |-> FALSE, status |-> NOT_AVAILABLE,
        build_opts |-> <<>>, run_opts |-> <<ToolchainOption("tool", ToolsOf)>>,
        deploy_opts |-> <<>>]
  ELSE IF SettingsRaises(f)
  THEN [exc |-> TRUE, status |-> NOT_AVAILABLE,
        build_opts |-> <<>>, run_opts |-> <<>>, deploy_opts |-> <<>>]
  ELSE [exc |-> FALSE, status |-> AVAILABLE,
        build_opts |-> <<ToolchainOption("settings", Settings(f))>>,
        run_opts |-> <<ToolchainOption("tool", ToolsOf)>>,
        deploy_opts |-> <<>>]

\* info; exc marks the call that raises in __settings and returns nothing.
Info(f) ==
  IF ~HasCppToolchain(f)
  THEN [exc |-> FALSE, status |-> NOT_AVAILABLE,
        build_opts |-> <<>>, run_opts |-> <<>>, deploy_opts |-> <<>>]
  ELSE IF SettingsRaises(f)
  THEN [exc |-> TRUE, status |-> NOT_AVAILABLE,
        build_opts |-> <<>>, run_opts |-> <<>>, deploy_opts |-> <<>>]
  ELSE [exc |-> FALSE, status |-> AVAILABLE,
        build_opts |-> <<ToolchainOption("settings", Settings(f))>>,
        run_opts |-> <<ToolchainOption("tool", ToolsOf)>>,
        deploy_opts |-> <<>>]

InSettings(f, settings) ==
  \E i \in 1..Len(Info(f).build_opts) :
    /\ Info(f).build_opts[i].name = "settings"
    /\ settings \in Info(f).build_opts[i].values

\* Mutant: the tool name is not checked.
InToolsAlways(f, tool) == TRUE

InTools(f, tool) ==
  \E i \in 1..Len(Info(f).run_opts) :
    /\ Info(f).run_opts[i].name = "tool"
    /\ tool \in Info(f).run_opts[i].values

-----------------------------------------------------------------------------
(* create *)

\* Mutant: the force flag is not consulted.
CreateIgnoresForce(f, force) ==
  IF RootNonEmpty(f)
  THEN Returned(f,
         Result(ERROR_INVALID_CONFIG, "Target directory is not empty",
                Put(NoInfo, "root-directory", Root)),
         <<>>)
  ELSE Returned(CopyTemplate(f),
         Result(SUCCESS, "Project successfully set up",
                Put(NoInfo, "root-directory", Root)),
         <<Event("copytree", Root, 0)>>)

Create(f, force) ==
  IF ~force /\ RootNonEmpty(f)
  THEN Returned(f,
         Result(ERROR_INVALID_CONFIG, "Target directory is not empty",
                Put(NoInfo, "root-directory", Root)),
         <<>>)
  ELSE Returned(CopyTemplate(f),
         Result(SUCCESS, "Project successfully set up",
                Put(NoInfo, "root-directory", Root)),
         <<Event("copytree", Root, 0)>>)

-----------------------------------------------------------------------------
(* clean *)

\* Mutant: only the subdirectory of the default settings is removed.
RemoveDefaultBuildOnly(f) ==
  [f EXCEPT !.sub[DefaultSettings] = NoSub, !.exes = 0]

\* shutil.rmtree(build)
RemoveBuildDirectory(f) ==
  [f EXCEPT !.build = FALSE, !.sub = [s \in SettingsNames |-> NoSub], !.exes = 0]

RemoveCompileCommands(f) == [f EXCEPT !.rootcc = "absent"]

\* Mutant: compile_commands.json is removed only when there was no build
\* directory to remove ("elif" for the second "if").
CleanElif(f) ==
  LET f2 == IF f.build THEN RemoveBuildDirectory(f)
            ELSE IF f.rootcc # "absent" THEN RemoveCompileCommands(f) ELSE f
      log == <<Event("clean", Root, 0)>>
             \o (IF f.build THEN <<Event("rmtree", BuildDirectory, 0)>>
                 ELSE IF f.rootcc # "absent"
                 THEN <<Event("remove", Root \o "/compile_commands.json", 0)>>
                 ELSE <<>>)
  IN Returned(f2,
       Result(SUCCESS, "Project cleanup successfully completed",
              Put(Put(NoInfo, "root-directory", Root),
                  "build-directory", BuildDirectory)),
       log)

Clean(f) ==
  LET f1 == IF f.build THEN RemoveBuildDirectory(f) ELSE f
      f2 == IF f1.rootcc # "absent" THEN RemoveCompileCommands(f1) ELSE f1
      log == <<Event("clean", Root, 0)>>
             \o (IF f.build THEN <<Event("rmtree", BuildDirectory, 0)>> ELSE <<>>)
             \o (IF f1.rootcc # "absent"
                 THEN <<Event("remove", Root \o "/compile_commands.json", 0)>>
                 ELSE <<>>)
  IN Returned(f2,
       Result(SUCCESS, "Project cleanup successfully completed",
              Put(Put(NoInfo, "root-directory", Root),
                  "build-directory", BuildDirectory)),
       log)

-----------------------------------------------------------------------------
(* __build_type: re.match(r".+__(\w+)$", settings), group 1 upper-cased *)

Lower == "abcdefghijklmnopqrstuvwxyz"
Upper == "ABCDEFGHIJKLMNOPQRSTUVWXYZ"
Digits == "0123456789"

CharAt(s, i) == SubSeq(s, i, i)

CharsOf(s) == {CharAt(s, i) : i \in 1..Len(s)}

\* \w
WordChars == CharsOf(Lower) \cup CharsOf(Upper) \cup CharsOf(Digits) \cup {"_"}

UpperChar(c) ==
  IF c \in CharsOf(Lower)
  THEN CharAt(Upper, CHOOSE i \in 1..Len(Lower) : CharAt(Lower, i) = c)
  ELSE c

RECURSIVE ToUpper(_)
ToUpper(s) ==
  IF Len(s) = 0 THEN "" ELSE UpperChar(CharAt(s, 1)) \o ToUpper(SubSeq(s, 2, Len(s)))

\* The positions i where "__" starts, something precedes it, and only \w
\* characters, at least one, follow it up to the end.
BuildTypeMatches(s) ==
  {i \in 2..Len(s) :
     /\ i + 2 <= Len(s)
     /\ SubSeq(s, i, i + 1) = "__"
     /\ \A j \in (i + 2)..Len(s) : CharAt(s, j) \in WordChars}

\* Mutant: the token is returned as written (upper() is missing).
BuildTypeAsWritten(s) ==
  IF BuildTypeMatches(s) = {} THEN ""
  ELSE LET i == CHOOSE k \in BuildTypeMatches(s) :
                   \A m \in BuildTypeMatches(s) : m <= k
       IN SubSeq(s, i + 2, Len(s))

\* ".+" is greedy: the match with the longest prefix is the one taken.
BuildType(s) ==
  IF BuildTypeMatches(s) = {} THEN ""
  ELSE LET i == CHOOSE k \in BuildTypeMatches(s) :
                   \A m \in BuildTypeMatches(s) : m <= k
       IN ToUpper(SubSeq(s, i + 2, Len(s)))

\* The build types of the settings names of this model, computed once.
BuildTypeOf == [s \in SettingsNames |-> BuildType(s)]

-----------------------------------------------------------------------------
(* build *)

RECURSIVE Join(_)
\* " ".join(parts)
Join(parts) ==
  IF Len(parts) = 0 THEN ""
  ELSE IF Len(parts) = 1 THEN parts[1]
  ELSE parts[1] \o " " \o Join(Tail(parts))

SettingsPath(settings) == ToolsConanDirectory \o "/" \o settings

BuildDirectoryOf(settings) == BuildDirectory \o "/" \o settings

CMakeToolchain(settings) == BuildDirectoryOf(settings) \o "/conan_toolchain.cmake"

Cmd1(settings) ==
  Join(<< "conan install " \o Root,
          "--output-folder " \o BuildDirectoryOf(settings),
          "--profile:host " \o SettingsPath(settings),
          "--profile:build " \o SettingsPath(settings),
          "--build missing" >>)

Cmd2(settings, cmake_opts) ==
  Join(<< "cmake",
          "-DCMAKE_BUILD_TYPE=" \o BuildTypeOf[settings],
          "-DCMAKE_TOOLCHAIN_FILE=" \o CMakeToolchain(settings) >>
       \o cmake_opts \o <<Root>>)

Cmd3(settings) ==
  Join(<<"cmake", "--build " \o BuildDirectoryOf(settings), "-- -j">>)

\* Mutant: the bundled profile is found but not copied into the project.
CopyProfileSkipped(f, settings) == f

\* shutil.copy2(tool_settings_path, settings_path)
CopyProfile(f, settings) == [f EXCEPT !.local[settings] = "bundled"]

\* The copy of the profile is the first step of the call r that follows it.
ProfileCopied(settings, r) ==
  [r EXCEPT !.log = <<Event("copy-profile", SettingsPath(settings), 0)>> \o @]

\* os.makedirs(build_directory)
MakeBuildDirectory(f, settings) ==
  [f EXCEPT !.build = TRUE, !.sub[settings].exists = TRUE]

\* The external commands.  A command that exits non-zero leaves the directory
\* as it found it; one that exits 0 may or may not write its artifact:
\*   conan install: conan_toolchain.cmake in the build directory,
\*   cmake (configure): compile_commands.json in the build directory,
\*   cmake --build: the executables (tracked for the default settings).
ConanInstall(f, settings, env) ==
  IF env.install_rc = 0 /\ env.toolchain
  THEN [f EXCEPT !.sub[settings].toolchain = TRUE] ELSE f

CMakeConfigure(f, settings, env) ==
  IF env.configure_rc = 0 /\ env.cc
  THEN [f EXCEPT !.sub[settings].cc = TRUE] ELSE f

CMakeBuild(f, settings, env) ==
  IF env.compile_rc = 0 /\ settings = DefaultSettings
  THEN [f EXCEPT !.exes = env.exes] ELSE f

\* Mutant: a compile_commands.json already in the root is not overwritten.
PublishKeepsExisting(f, settings) ==
  IF f.sub[settings].cc /\ f.rootcc = "absent"
  THEN [f EXCEPT !.rootcc = settings] ELSE f

\* shutil.copy2(compile_commands, root) when the build directory has one
PublishCompileCommands(f, settings) ==
  IF f.sub[settings].cc THEN [f EXCEPT !.rootcc = settings] ELSE f

\* Mutant: the command lines are added whether verbose is set or not.
BuildInfoAlwaysCommands(settings, cmake_opts, verbose) ==
  Put(Put(Put(Put(Put(NoInfo, "root-directory", Root),
                  "build-directory", BuildDirectoryOf(settings)),
              "command-1", Cmd1(settings)),
          "command-2", Cmd2(settings, cmake_opts)),
      "command-3", Cmd3(settings))

\* result_info, lines 206-216
BuildInfo(settings, cmake_opts, verbose) ==
  LET base == Put(Put(NoInfo, "root-directory", Root),
                  "build-directory", BuildDirectoryOf(settings))
  IN IF verbose
     THEN Put(Put(Put(base, "command-1", Cmd1(settings)),
                  "command-2", Cmd2(settings, cmake_opts)),
              "command-3", Cmd3(settings))
     ELSE base

\* Mutant: only a negative return code (death by signal) counts as failure.
CommandFailedNegative(rc) == rc < 0

\* presult.returncode != 0
CommandFailed(rc) == rc # 0

\* Mutant: compile_commands.json is published as soon as configure has
\* written it, whatever compile exits with.
PipelinePublishesEarly(f0, settings, cmake_opts, verbose, env) ==
  LET f1 == IF f0.sub[settings].exists THEN f0 ELSE MakeBuildDirectory(f0, settings)
      f2 == ConanInstall(f1, settings, env)
      e1 == Event("install", Cmd1(settings), env.install_rc)
      ck == Event("toolchain-check", CMakeToolchain(settings),
                  IF f2.sub[settings].toolchain THEN 0 ELSE 1)
      f3 == CMakeConfigure(f2, settings, env)
      e2 == Event("configure", Cmd2(settings, cmake_opts), env.configure_rc)
      f4 == CMakeBuild(f3, settings, env)
      e3 == Event("compile", Cmd3(settings), env.compile_rc)
      f5 == PublishCompileCommands(f4, settings)
  IN IF CommandFailed(env.install_rc)
     THEN Returned(f2, Result(ERROR_COMMAND_FAILED,
                              "Failed to install conan packages", NoInfo), <<e1>>)
     ELSE IF ~f2.sub[settings].toolchain
     THEN Returned(f2, Result(ERROR_INVALID_CONFIG,
                              "conan_toolchain.cmake is missing", NoInfo), <<e1, ck>>)
     ELSE IF CommandFailed(env.configure_rc)
     THEN Returned(f3, Result(ERROR_COMMAND_FAILED,
                              "Failed to prepare project", NoInfo), <<e1, ck, e2>>)
     ELSE IF CommandFailed(env.compile_rc)
     THEN Returned(f5, Result(ERROR_COMMAND_FAILED,
                              "Failed to prepare project", NoInfo), <<e1, ck, e2, e3>>)
     ELSE Returned(f5, Result(SUCCESS, "Project successfully built",
                              BuildInfo(settings, cmake_opts, verbose)),
                   <<e1, ck, e2, e3>>)

\* Lines 142-222: from the prepared profile to the returned Result.
Pipeline(f0, settings, cmake_opts, verbose, env) ==
  LET f1 == IF f0.sub[settings].exists THEN f0 ELSE MakeBuildDirectory(f0, settings)
      f2 == ConanInstall(f1, settings, env)
      e1 == Event("install", Cmd1(settings), env.install_rc)
      ck == Event("toolchain-check", CMakeToolchain(settings),
                  IF f2.sub[settings].toolchain THEN 0 ELSE 1)
      f3 == CMakeConfigure(f2, settings, env)
      e2 == Event("configure", Cmd2(settings, cmake_opts), env.configure_rc)
      f4 == CMakeBuild(f3, settings, env)
      e3 == Event("compile", Cmd3(settings), env.compile_rc)
      f5 == PublishCompileCommands(f4, settings)
  IN IF CommandFailed(env.install_rc)
     THEN Returned(f2, Result(ERROR_COMMAND_FAILED,
                              "Failed to install conan packages", NoInfo), <<e1>>)
     ELSE IF ~f2.sub[settings].toolchain
     THEN Returned(f2, Result(ERROR_INVALID_CONFIG,
                              "conan_toolchain.cmake is missing", NoInfo), <<e1, ck>>)
     ELSE IF CommandFailed(env.configure_rc)
     THEN Returned(f3, Result(ERROR_COMMAND_FAILED,
                              "Failed to prepare project", NoInfo), <<e1, ck, e2>>)
     ELSE IF CommandFailed(env.compile_rc)
     THEN Returned(f4, Result(ERROR_COMMAND_FAILED,
                              "Failed to prepare project", NoInfo), <<e1, ck, e2, e3>>)
     ELSE Returned(f5, Result(SUCCESS, "Project successfully built",
                              BuildInfo(settings, cmake_opts, verbose)),
                   <<e1, ck, e2, e3>>)

\* Mutant: the rejection carries the wrong status code.
UnknownSettingsInternal(f) ==
  Returned(f, Result(ERROR_INTERNAL, "Unknown settings", NoInfo), <<>>)

UnknownSettingsResult(f) ==
  Returned(f, Result(ERROR_INVALID_CONFIG, "Unknown settings", NoInfo), <<>>)

\* Mutant: the build directory is prepared before the settings name is checked.
BuildStepsPrepareFirst(f, settings, cmake_opts, verbose, env) ==
  IF Info(f).exc THEN Raised(f, <<>>)
  ELSE IF ~InSettings(f, settings)
  THEN UnknownSettingsResult(MakeBuildDirectory(f, settings))
  ELSE IF f.local[settings] # "absent"
  THEN Pipeline(f, settings, cmake_opts, verbose, env)
  ELSE IF settings \notin BundledSettings THEN UnknownSettingsResult(f)
  ELSE ProfileCopied(settings,
         Pipeline(CopyProfile(f, settings), settings, cmake_opts, verbose, env))

\* Lines 123-140, then the pipeline.
BuildSteps(f, settings, cmake_opts, verbose, env) ==
  IF Info(f).exc THEN Raised(f, <<>>)
  ELSE IF ~InSettings(f, settings) THEN UnknownSettingsResult(f)
  ELSE IF f.local[settings] # "absent"
  THEN Pipeline(f, settings, cmake_opts, verbose, env)
  ELSE IF settings \notin BundledSettings THEN UnknownSettingsResult(f)
  ELSE ProfileCopied(settings,
         Pipeline(CopyProfile(f, settings), settings, cmake_opts, verbose, env))

ResultText(result) == result.code \o ": " \o result.message

\* Mutant: a build that does not succeed removes the build directory again.
BuildReturnsRollsBack(r) ==
  IF r.exc THEN r
  ELSE [r EXCEPT !.fs = IF Ok(r.result) THEN @ ELSE RemoveBuildDirectory(@),
                 !.log = @ \o <<Event("build-returned", ResultText(r.result),
                                      IF Ok(r.result) THEN 0 ELSE 1)>>]

\* The log of a build ends with what it returned.
BuildReturns(r) ==
  IF r.exc THEN r
  ELSE [r EXCEPT !.log = @ \o <<Event("build-returned", ResultText(r.result),
                                      IF Ok(r.result) THEN 0 ELSE 1)>>]

\* build
Build(f, settings, cmake_opts, verbose, env) ==
  BuildReturns(BuildSteps(f, settings, cmake_opts, verbose, env))

-----------------------------------------------------------------------------
(* run *)

\* glob.glob("<build_directory>/**/*<suffix>", recursive=True): the matching
\* executables, in one of the two orders the directory scan can give.
Matching(f, suffix) == {i \in 1..f.exes : ExeList[i].suffix = suffix}

RECURSIVE Ascending(_)
Ascending(S) ==
  IF S = {} THEN <<>>
  ELSE LET m == CHOOSE x \in S : \A y \in S : x <= y
       IN <<m>> \o Ascending(S \ {m})

Reverse(q) == [i \in 1..Len(q) |-> q[Len(q) + 1 - i]]

Glob(f, suffix, rev) ==
  IF rev THEN Reverse(Ascending(Matching(f, suffix))) ELSE Ascending(Matching(f, suffix))

Passed == "[green]passed[/green]"
Failed == "[red]failed[/red]"

\* Mutant: a passing executable sets the code back to SUCCESS.
RunAppResets(result, app, rc, message) ==
  IF CommandFailed(rc)
  THEN Result(ERROR_COMMAND_FAILED, message, Put(result.info, Basename(app), Failed))
  ELSE Result(SUCCESS, result.message, Put(result.info, Basename(app), Passed))

\* One iteration of "for app in glob.glob(...)": run the executable, fold its
\* exit code into the result.
RunApp(result, app, rc, message) ==
  IF CommandFailed(rc)
  THEN Result(ERROR_COMMAND_FAILED, message, Put(result.info, Basename(app), Failed))
  ELSE Result(result.code, result.message, Put(result.info, Basename(app), Passed))

ExitCode(app, env) == IF app \in env.failing THEN 1 ELSE 0

RECURSIVE RunApps(_, _, _, _, _)
RunApps(result, build_directory, apps, env, message) ==
  IF Len(apps) = 0 THEN [result |-> result, log |-> <<>>]
  ELSE LET app == Head(apps)
           rc == ExitCode(app, env)
           rest == RunApps(RunApp(result, app, rc, message),
                           build_directory, Tail(apps), env, message)
       IN [result |-> rest.result,
           log |-> <<Event("exec", ExePath(build_directory, app), rc)>> \o rest.log]

\* The steps of a call that follow its clean: their log follows the clean's.
AfterClean(c, b) == [b EXCEPT !.log = c.log \o @]

\* Lines 301-309: the build after the clean.
ClangTidyBuild(c, verbose, env) ==
  IF ~Ok(c.result) THEN c
  ELSE AfterClean(c, Build(c.fs, DefaultSettings, <<"-DANALYSIS=clang-tidy">>,
                           verbose, env))

RunClangTidy(f, verbose, env) == ClangTidyBuild(Clean(f), verbose, env)

\* The loop has run: its result is the call's, its log follows the build's.
AfterLoop(b, loop) == Returned(b.fs, loop.result, b.log \o loop.log)

\* The result the loop of __run_gtest and __run_benchmark starts from.
FreshResult(success) ==
  Result(SUCCESS, success,
         Put(Put(NoInfo, "root-directory", Root),
             "build-directory", BuildDirectoryOf(DefaultSettings)))

\* Mutant: the loop folds the exit codes into the build's result, as the
\* sanitizers' loop does.
RunBuiltAppsKeepsBuildResult(b, env, suffix, success, failure) ==
  IF b.exc \/ ~Ok(b.result) THEN b
  ELSE AfterLoop(b, RunApps(b.result, BuildDirectoryOf(DefaultSettings),
                            Glob(b.fs, suffix, env.rev), env, failure))

\* Mutant: the executables are run whatever the build returned.
RunBuiltAppsAnyway(b, env, suffix, success, failure) ==
  IF b.exc THEN b
  ELSE AfterLoop(b, RunApps(FreshResult(success), BuildDirectoryOf(DefaultSettings),
                            Glob(b.fs, suffix, env.rev), env, failure))

\* What __run_gtest and __run_benchmark do with the result b of their build;
\* they differ in the pattern and the messages.
RunBuiltApps(b, env, suffix, success, failure) ==
  IF b.exc \/ ~Ok(b.result) THEN b
  ELSE AfterLoop(b, RunApps(FreshResult(success), BuildDirectoryOf(DefaultSettings),
                            Glob(b.fs, suffix, env.rev), env, failure))

RunGtest(f, verbose, env) ==
  RunBuiltApps(Build(f, DefaultSettings, <<>>, verbose, env), env, "-test",
               "Tests successfully executed", "Failed to run gtest")

RunBenchmark(f, verbose, env) ==
  RunBuiltApps(Build(f, DefaultSettings, <<>>, verbose, env), env, "-bench",
               "Benchmarks successfully executed", "Failed to run benchmark")

\* Lines 396-409: the loop folds the exit codes into the build's own result.
XsanLoop(b, env) ==
  IF b.exc \/ ~Ok(b.result) THEN b
  ELSE AfterLoop(b, RunApps(b.result, b.result.info["build-directory"],
                            Glob(b.fs, "-test", env.rev), env, "Failed to run test"))

\* Lines 389-394: the build after the clean.
XsanBuild(c, sanitizer, verbose, env) ==
  IF ~Ok(c.result) THEN c
  ELSE AfterClean(c, XsanLoop(Build(c.fs, DefaultSettings,
                                    <<"-DSANITIZER=" \o sanitizer>>, verbose, env),
                              env))

\* Mutant: the sanitizer build starts from the directory as it is.
RunXsanNoClean(f, sanitizer, verbose, env) ==
  XsanLoop(Build(f, DefaultSettings, <<"-DSANITIZER=" \o sanitizer>>, verbose, env),
           env)

\* __run_xsan
RunXsan(f, sanitizer, verbose, env) == XsanBuild(Clean(f), sanitizer, verbose, env)

\* Mutant: a tool that cleans does so before its name is checked.
RunCleansFirst(f, tool, verbose, env) ==
  IF Info(f).exc THEN Raised(f, <<>>)
  ELSE IF ~InTools(f, tool)
  THEN Returned(IF tool \in {"clang-tidy", "asan", "msan", "tsan"}
                THEN Clean(f).fs ELSE f,
                Result(ERROR_INVALID_CONFIG, "Unknown tool", NoInfo), <<>>)
  ELSE IF tool = "clang-tidy" THEN RunClangTidy(f, verbose, env)
  ELSE IF tool = "gtest" THEN RunGtest(f, verbose, env)
  ELSE IF tool = "benchmark" THEN RunBenchmark(f, verbose, env)
  ELSE IF tool = "asan" THEN RunXsan(f, "asan", verbose, env)
  ELSE IF tool = "msan" THEN RunXsan(f, "msan", verbose, env)
  ELSE IF tool = "tsan" THEN RunXsan(f, "tsan", verbose, env)
  ELSE Returned(f, Result(ERROR_INTERNAL, "Internal error",
                          Put(NoInfo, "root-directory", Root)), <<>>)

\* run
Run(f, tool, verbose, env) ==
  IF Info(f).exc THEN Raised(f, <<>>)
  ELSE IF ~InTools(f, tool)
  THEN Returned(f, Result(ERROR_INVALID_CONFIG, "Unknown tool", NoInfo), <<>>)
  ELSE IF tool = "clang-tidy" THEN RunClangTidy(f, verbose, env)
  ELSE IF tool = "gtest" THEN RunGtest(f, verbose, env)
  ELSE IF tool = "benchmark" THEN RunBenchmark(f, verbose, env)
  ELSE IF tool = "asan" THEN RunXsan(f, "asan", verbose, env)
  ELSE IF tool = "msan" THEN RunXsan(f, "msan", verbose, env)
  ELSE IF tool = "tsan" THEN RunXsan(f, "tsan", verbose, env)
  ELSE Returned(f, Result(ERROR_INTERNAL, "Internal error",
                          Put(NoInfo, "root-directory", Root)), <<>>)

-----------------------------------------------------------------------------
(* The outcomes of the external processes of one call.  A field is drawn only *)
(* where the stage before it can let its stage run.                          *)

NoFailing == {}

BuildEnvs ==
  {e \in [install_rc : {0, 1}, toolchain : BOOLEAN,
          configure_rc : {0, 1}, cc : BOOLEAN,
          compile_rc : {0, 1}, exes : 0..MaxExes,
          failing : {NoFailing}, rev : {FALSE}] :
     /\ e.install_rc # 0 => ~e.toolchain /\ e.configure_rc = 0
     /\ e.configure_rc # 0 => ~e.cc /\ e.compile_rc = 0
     /\ e.compile_rc # 0 => e.exes = 0}

Succeeds(e) == e.install_rc = 0 /\ e.configure_rc = 0 /\ e.compile_rc = 0

RunEnvs ==
  {[e EXCEPT !.failing = F, !.rev = r] :
     e \in BuildEnvs, F \in SUBSET ExeIndex, r \in BOOLEAN}

\* The outcomes a run of `tool` can meet: exit codes only of executables the
\* tool's pattern finds, a second scan order only where two are found.
RunEnvsOf(tool) ==
  LET suffix == IF tool = "benchmark" THEN "-bench" ELSE "-test"
      found(e) == IF Succeeds(e) /\ tool # "clang-tidy"
                  THEN {i \in 1..e.exes : ExeList[i].suffix = suffix} ELSE {}
  IN {e \in RunEnvs : e.failing \subseteq found(e)
                      /\ (e.rev => Cardinality(found(e)) >= 2)}

RunEnvsTable == [tool \in ToolNames |-> RunEnvsOf(tool)]

\* Without a toolchain file, left by an earlier install or written by this
\* one, no later stage runs and its outcomes are not drawn.
Drawn(e, had_toolchain) ==
  (e.install_rc = 0 /\ ~e.toolchain /\ ~had_toolchain)
    => (e.configure_rc = 0 /\ ~e.cc /\ e.compile_rc = 0 /\ e.exes = 0
        /\ e.failing = {} /\ ~e.rev)

Cleans(tool) == tool \in {"clang-tidy", "asan", "msan", "tsan"}

-----------------------------------------------------------------------------
(* Actions: one per method of Cpp, and the user's own changes of the project *)

\* A call: the method, its arguments, the method called right before it
\* ("none" when the call starts a command), and what it did.
Call(op, name, force, verbose, after, r) ==
  [op |-> op, name |-> name, force |-> force, verbose |-> verbose, after |-> after,
   exc |-> r.exc, result |-> r.result, log |-> r.log]

NoCall ==
  Call("none", "", FALSE, FALSE, "none",
       Returned(EmptyDirectory, Result(SUCCESS, "", NoInfo), <<>>))

Init ==
  /\ fs = EmptyDirectory
  /\ last = NoCall

\* One command is one process (main.py): the toolchain is constructed, the
\* method called, the result reported (Report), and the next command starts
\* from the directory alone.
Idle == last = NoCall

\* The call returned (or raised) r: the directory is as the call left it.
Called(op, name, force, verbose, r) ==
  /\ fs' = r.fs
  /\ last' = Call(op, name, force, verbose, last.op, r)

DoCreate ==
  /\ Idle
  /\ \E force \in BOOLEAN :
       Called("create", "", force, FALSE, Create(fs, force))

\* info as a call: it returns a ToolchainInfo and does nothing else.
Described(f) == [fs |-> f, exc |-> Info(f).exc, result |-> Info(f), log |-> <<>>]

DoInfo ==
  /\ Idle
  /\ Called("info", "", FALSE, FALSE, Described(fs))

\* A clean may also follow a clean at once.
DoClean ==
  /\ Idle \/ last.op = "clean"
  /\ Called("clean", "", FALSE, FALSE, Clean(fs))

DoBuild ==
  /\ Idle
  /\ \E settings \in SettingsNames, verbose \in BOOLEAN, env \in BuildEnvs :
       /\ Drawn(env, fs.sub[settings].toolchain)
       /\ Called("build", settings, FALSE, verbose,
                 Build(fs, settings, <<>>, verbose, env))

DoRun ==
  /\ Idle
  /\ \E tool \in ToolNames, verbose \in BOOLEAN :
       \E env \in RunEnvsTable[tool] :
         /\ Drawn(env, ~Cleans(tool) /\ fs.sub[DefaultSettings].toolchain)
         /\ Called("run", tool, FALSE, verbose, Run(fs, tool, verbose, env))

\* log_command_info: the result is printed and the process ends.
Report ==
  /\ ~Idle
  /\ last' = NoCall
  /\ UNCHANGED fs

\* The user writes a CMakeLists.txt of their own.
UserWritesCMake ==
  /\ Idle
  /\ fs.cmake # "user"
  /\ fs' = [fs EXCEPT !.cmake = "user"]
  /\ UNCHANGED last

\* The user writes (or edits) a profile in tools/conan.
UserWritesProfile ==
  /\ Idle
  /\ \E s \in {DefaultSettings, LocalSettings} :
       /\ fs.local[s] # "user"
       /\ fs' = [fs EXCEPT !.conan = TRUE, !.local[s] = "user"]
       /\ UNCHANGED last

Next ==
  \/ DoInfo
  \/ DoCreate
  \/ DoClean
  \/ DoBuild
  \/ DoRun
  \/ Report
  \/ UserWritesCMake
  \/ UserWritesProfile

Spec == Init /\ [][Next]_vars

-----------------------------------------------------------------------------
(* __build_type on its own, for names beyond the settings names above *)

\* The pieces names are put together from, and how many of them at most.
MaxPieces == 5

NamePieces == <<"a", "B7", "_", "__", "-">>

RECURSIVE Concat(_)
Concat(q) == IF Len(q) = 0 THEN "" ELSE Head(q) \o Concat(Tail(q))

Names ==
  UNION {{Concat([i \in 1..n |-> NamePieces[q[i]]]) :
            q \in [1..n -> 1..Len(NamePieces)]} : n \in 1..MaxPieces}

\* __build_type(name) reads nothing but its argument: it is applied once per
\* name, in the initial directory.
DoBuildType ==
  /\ Idle
  /\ fs = EmptyDirectory
  /\ \E name \in Names :
       last' = [op |-> "__build_type", name |-> name, force |-> FALSE,
                verbose |-> FALSE, after |-> last.op, exc |-> FALSE,
                result |-> [build_type |-> BuildType(name)], log |-> <<>>]
  /\ UNCHANGED fs

NextBuildType ==
  \/ Next
  \/ DoBuildType

SpecBuildType == Init /\ [][NextBuildType]_vars

-----------------------------------------------------------------------------
(* The commands on a project whose CMakeLists.txt the user may also delete *)

\* The user deletes the CMakeLists.txt; whatever was built stays.
UserRemovesCMake ==
  /\ Idle
  /\ fs.cmake # "absent"
  /\ fs' = [fs EXCEPT !.cmake = "absent"]
  /\ UNCHANGED last

NextRemoval ==
  \/ Next
  \/ UserRemovesCMake

SpecRemoval == Init /\ [][NextRemoval]_vars

-----------------------------------------------------------------------------
(* Vocabulary of the properties *)

\* The events of a log that are spawned processes.
IsSpawn(e) == e.stage \in {"install", "configure", "compile", "exec"}

Spawns(log) == SelectSeq(log, IsSpawn)

IsBuildStage(e) == e.stage \in {"install", "toolchain-check", "configure", "compile"}

BuildStages(log) == SelectSeq(log, IsBuildStage)

\* The settings catalog as info() resolves it from the two directories: no
\* catalog where the listing of tools/conan raises, an empty one where the
\* project has no CMakeLists.txt.
CatalogResolves(f) == f.cmake = "absent" \/ f.conan

ResolvedCatalog(f) ==
  IF f.cmake = "absent" THEN {}
  ELSE BundledSettings \cup {s \in SettingsNames : f.local[s] # "absent"}

-----------------------------------------------------------------------------
(* C1 *)

-----------------------------------------------------------------------------
(* C2 *)

StageOrder == <<"install", "toolchain-check", "configure", "compile">>

\* C2: the build stages of a call (of build itself or of the build inside a
\* run) are a prefix of install, toolchain-file check, configure, compile,
\* each at most once, and every stage before the last one reached succeeded:
\* nothing is spawned after the first failing stage.
C2_StagesInOrder ==
  LET st == BuildStages(last.log)
  IN /\ Len(st) <= Len(StageOrder)
     /\ \A i \in 1..Len(st) : st[i].stage = StageOrder[i]
     /\ \A i \in 1..(Len(st) - 1) : st[i].rc = 0
     /\ last.op = "build" => Len(Spawns(last.log)) <= 3

\* A build that stopped at a failing configure: install and the check passed,
\* compile was never spawned.
C2_Witness ==
  /\ last.op = "build"
  /\ Len(BuildStages(last.log)) = 3
  /\ BuildStages(last.log)[3].stage = "configure"
  /\ BuildStages(last.log)[3].rc # 0

-----------------------------------------------------------------------------
(* C3 *)

HasEvent(log, stage, ok) ==
  \E i \in 1..Len(log) : log[i].stage = stage /\ (log[i].rc = 0) = ok

\* C3: the code a build returns is decided by the stage outcomes alone.
\* SUCCESS exactly when the name is in the catalog (so its profile is found),
\* install exits 0, conan_toolchain.cmake then exists in build/<settings>,
\* configure exits 0 and compile exits 0; ERROR_COMMAND_FAILED exactly when a
\* spawned command exits non-zero; ERROR_INVALID_CONFIG exactly when the name
\* is rejected or the toolchain file is missing after an install that exited
\* 0; never ERROR_INTERNAL.
C3_CodeFromStageOutcomes ==
  [][ (Idle /\ last'.op = "build" /\ ~last'.exc)
      => LET name == last'.name
             log == last'.log
             code == last'.result.code
             valid == name \in ResolvedCatalog(fs)
             toolchain == fs'.sub[name].toolchain
         IN /\ (code = SUCCESS) =
                 (/\ valid
                  /\ HasEvent(log, "install", TRUE)
                  /\ toolchain
                  /\ HasEvent(log, "configure", TRUE)
                  /\ HasEvent(log, "compile", TRUE))
            /\ (code = ERROR_COMMAND_FAILED) =
                 (\E st \in {"install", "configure", "compile"} :
                    HasEvent(log, st, FALSE))
            /\ (code = ERROR_INVALID_CONFIG) =
                 (~valid \/ (HasEvent(log, "install", TRUE) /\ ~toolchain))
            /\ code # ERROR_INTERNAL ]_vars

\* A build that returned ERROR_INVALID_CONFIG for the missing toolchain file
\* after an install that exited 0.
C3_Witness ==
  /\ last.op = "build"
  /\ last.result.code = ERROR_INVALID_CONFIG
  /\ HasEvent(last.log, "install", TRUE)
  /\ ~fs.sub[last.name].toolchain

-----------------------------------------------------------------------------
(* C4, C5 *)

ExecTools == {"gtest", "benchmark", "asan", "msan", "tsan"}

SuffixOf(tool) == IF tool = "benchmark" THEN "-bench" ELSE "-test"

\* The executables the tool's pattern finds under build/<default settings>.
Discovered(f, tool) == {i \in 1..f.exes : ExeList[i].suffix = SuffixOf(tool)}

IsExec(e) == e.stage = "exec"

Execs(log) == SelectSeq(log, IsExec)

\* The runs of executable i in a log.
RunsOf(log, i) ==
  {k \in 1..Len(log) :
     /\ log[k].stage = "exec"
     /\ log[k].cmd = ExePath(BuildDirectoryOf(DefaultSettings), i)}

\* A run of a test or benchmark tool whose build returned SUCCESS.
RanExecutables ==
  /\ last.op = "run"
  /\ last.name \in ExecTools
  /\ HasEvent(last.log, "build-returned", TRUE)

\* C4: every discovered executable is run exactly once whatever the others
\* exited with, and the returned code is ERROR_COMMAND_FAILED exactly when
\* one of them exited non-zero (so a later passing one never restores
\* SUCCESS), SUCCESS otherwise.
C4_AllRunCodeDowngraded ==
  RanExecutables =>
    LET ex == Execs(last.log)
        failed == \E k \in 1..Len(ex) : ex[k].rc # 0
    IN /\ \A i \in Discovered(fs, last.name) : Cardinality(RunsOf(last.log, i)) = 1
       /\ Len(ex) = Cardinality(Discovered(fs, last.name))
       /\ (last.result.code = ERROR_COMMAND_FAILED) = failed
       /\ (last.result.code = SUCCESS) = ~failed

\* A failing executable followed by a passing one; the code stayed downgraded.
C4_Witness ==
  /\ RanExecutables
  /\ Len(Execs(last.log)) >= 2
  /\ Execs(last.log)[1].rc # 0
  /\ Execs(last.log)[2].rc = 0
  /\ last.result.code = ERROR_COMMAND_FAILED

\* The pass/fail entries of a detail map.
Marks(info) == {k \in DOMAIN info : info[k] \in {Passed, Failed}}

\* C5 (as claimed): after such a run the detail map has exactly one pass/fail
\* entry per discovered executable, and the entry of an executable is marked
\* failed exactly when that executable exited non-zero, also for executables
\* of different subdirectories that share a base name.
C5_OneEntryPerExecutable ==
  RanExecutables =>
    LET info == last.result.info
        D == Discovered(fs, last.name)
    IN /\ Cardinality(Marks(info)) = Cardinality(D)
       /\ \A i \in D :
            /\ Basename(i) \in DOMAIN info
            /\ (info[Basename(i)] = Failed)
                 = (\E k \in RunsOf(last.log, i) : last.log[k].rc # 0)

-----------------------------------------------------------------------------
(* C6 *)

\* C6: when the build inside a run does not return SUCCESS, the run returns
\* that build's result (code and message) at once: the build's return is the
\* last event of the call and no executable is run.
C6_RunReturnsFailedBuild ==
  (last.op = "run" /\ HasEvent(last.log, "build-returned", FALSE)) =>
    /\ ~last.exc
    /\ last.log[Len(last.log)].stage = "build-returned"
    /\ last.log[Len(last.log)].cmd = ResultText(last.result)
    /\ last.result.code # SUCCESS
    /\ Execs(last.log) = <<>>

\* A gtest run whose build failed while test executables of an earlier build
\* lay in the build directory.
C6_Witness ==
  /\ last.op = "run"
  /\ last.name = "gtest"
  /\ HasEvent(last.log, "build-returned", FALSE)
  /\ Discovered(fs, "gtest") # {}

-----------------------------------------------------------------------------
(* C7 *)

\* The tool catalog as info() resolves it.
ResolvedTools(f) == IF f.cmake = "absent" THEN {} ELSE ToolsOf

-----------------------------------------------------------------------------
(* C8, C9 *)

\* The root directory holds at least one entry.
HasEntries(f) ==
  \/ f.cmake # "absent"
  \/ f.conan
  \/ f.build
  \/ f.rootcc # "absent"

\* C8: create without force on a root directory that holds an entry returns
\* ERROR_INVALID_CONFIG and leaves the directory as it was: nothing is
\* copied, nothing is modified.
C8_CreateRefusesNonEmpty ==
  [][ (Idle /\ last'.op = "create" /\ ~last'.force /\ HasEntries(fs))
      => (/\ ~last'.exc
          /\ last'.result.code = ERROR_INVALID_CONFIG
          /\ last'.log = <<>>
          /\ fs' = fs) ]_vars

\* A refused create on a project holding the user's own CMakeLists.txt.
C8_Witness ==
  /\ last.op = "create"
  /\ ~last.force
  /\ last.result.code = ERROR_INVALID_CONFIG
  /\ fs.cmake = "user"

\* C9: create with force on a root directory that holds an entry returns
\* SUCCESS; afterwards the template's CMakeLists.txt (overwriting one that
\* was there) and its tools/conan directory are present, and every entry the
\* template does not name is as it was.
C9_ForcedCreateCopies ==
  [][ (Idle /\ last'.op = "create" /\ last'.force /\ HasEntries(fs))
      => (/\ ~last'.exc
          /\ last'.result.code = SUCCESS
          /\ fs'.cmake = TemplateCMake
          /\ fs'.conan
          /\ fs'.local = fs.local
          /\ fs'.build = fs.build
          /\ fs'.sub = fs.sub
          /\ fs'.exes = fs.exes
          /\ fs'.rootcc = fs.rootcc) ]_vars

\* A forced create on a project that had a build directory and a profile of
\* the user's: both are still there beside the template's files.
C9_Witness ==
  /\ last.op = "create"
  /\ last.force
  /\ last.result.code = SUCCESS
  /\ fs.cmake = TemplateCMake
  /\ fs.build
  /\ fs.local[LocalSettings] = "user"

-----------------------------------------------------------------------------
(* C10 *)

IsRemoval(e) == e.stage \in {"rmtree", "remove"}

\* C10: every clean returns SUCCESS, and a clean that follows a clean at once
\* removes nothing: the directory after it is the directory before it.
C10_CleanIdempotent ==
  [][ /\ last'.op = "clean" => (~last'.exc /\ last'.result.code = SUCCESS)
      /\ (last.op = "clean" /\ last'.op = "clean")
           => (/\ last.result.code = SUCCESS
               /\ SelectSeq(last'.log, IsRemoval) = <<>>
               /\ fs' = fs) ]_vars

\* A second clean in a row.
C10_Witness ==
  /\ last.op = "clean"
  /\ last.after = "clean"
  /\ last.result.code = SUCCESS
  /\ ~fs.build /\ fs.rootcc = "absent"

-----------------------------------------------------------------------------
(* C11 *)

\* C11: after every clean call the build directory, with the subdirectory of
\* every settings name and the executables, and the root
\* compile_commands.json do not exist, and CMakeLists.txt, tools/conan and
\* the profiles in it are as they were before the call.
C11_CleanFrame ==
  [][ last'.op = "clean"
      => (/\ ~fs'.build
          /\ \A s \in SettingsNames : fs'.sub[s] = NoSub
          /\ fs'.exes = 0
          /\ fs'.rootcc = "absent"
          /\ fs'.cmake = fs.cmake
          /\ fs'.conan = fs.conan
          /\ fs'.local = fs.local) ]_vars

\* A clean that removed both a build directory and a published
\* compile_commands.json of a project with a profile of the user's.
C11_Witness ==
  /\ last.op = "clean"
  /\ HasEvent(last.log, "rmtree", TRUE)
  /\ HasEvent(last.log, "remove", TRUE)
  /\ fs.cmake # "absent"
  /\ fs.local[LocalSettings] = "user"

-----------------------------------------------------------------------------
(* C12 *)

\* C12: in every directory state info returns status NOT_AVAILABLE exactly
\* when CMakeLists.txt is missing from the root; whenever the status it
\* returns is NOT_AVAILABLE, the build, run and deploy option lists are
\* empty; and info leaves the directory as it was.
C12_InfoStatus ==
  [][ (Idle /\ last'.op = "info")
      => (/\ fs' = fs
          /\ last'.log = <<>>
          /\ (~last'.exc /\ last'.result.status = NOT_AVAILABLE)
               = (fs.cmake = "absent")
          /\ (~last'.exc /\ last'.result.status = NOT_AVAILABLE)
               => (/\ last'.result.build_opts = <<>>
                   /\ last'.result.run_opts = <<>>
                   /\ last'.result.deploy_opts = <<>>)) ]_vars

\* info on a root that holds profiles and a build directory but no
\* CMakeLists.txt: NOT_AVAILABLE.
C12_Witness ==
  /\ last.op = "info"
  /\ ~last.exc
  /\ last.result.status = NOT_AVAILABLE
  /\ fs.conan
  /\ fs.local[DefaultSettings] # "absent"

-----------------------------------------------------------------------------
(* C13 *)

\* The file names of the bundled settings directory and of tools/conan.
SettingsFiles(f) == BundledSettings \cup {s \in SettingsNames : f.local[s] # "absent"}

\* build took the name for a valid one: it returned, and not with the
\* rejection of the name.
Accepted(call) ==
  /\ ~call.exc
  /\ ~(call.result.code = ERROR_INVALID_CONFIG /\ call.result.message = "Unknown settings")

\* C13 (as claimed): for every name and every directory state, the validity
\* check of build takes the name for valid if and only if it is a file name
\* of the bundled settings directory or of tools/conan.
C13_ValidIffInUnion ==
  [][ (Idle /\ last'.op = "build")
      => (Accepted(last') = (last'.name \in SettingsFiles(fs))) ]_vars

-----------------------------------------------------------------------------
(* C14 *)

\* The settings name a call builds with.
BuiltName(call) == IF call.op = "build" THEN call.name ELSE DefaultSettings

\* sub occurs in s.
Contains(s, sub) ==
  \E i \in 1..(Len(s) + 1 - Len(sub)) : SubSeq(s, i, i + Len(sub) - 1) = sub

\* Both profile arguments of conan install name the project-local file.
LocalProfileArguments(s) ==
  "--profile:host " \o Root \o "/tools/conan/" \o s
    \o " --profile:build " \o Root \o "/tools/conan/" \o s

\* Whether an install command line passes the project-local profile of s as
\* host and as build profile, computed once for the command lines build can
\* spawn; any other command line does not.
PassesLocalProfile ==
  [c \in {Cmd1(t) : t \in SettingsNames} |->
     [s \in SettingsNames |-> Contains(c, LocalProfileArguments(s))]]

\* C14: a profile that exists in tools/conan is used as it is and is never
\* overwritten by the bundled one; one that exists only in the bundled
\* settings directory is copied to tools/conan/<settings> before install is
\* spawned; so whenever install is spawned the project-local profile exists,
\* and it is the file passed as host and as build profile.  No other
\* profile is touched.
C14_LocalProfileFirst ==
  [][ (Idle /\ last'.op \in {"build", "run"})
      => LET s == BuiltName(last')
             log == last'.log
         IN /\ fs.local[s] # "absent"
                 => (fs'.local[s] = fs.local[s] /\ ~HasEvent(log, "copy-profile", TRUE))
            /\ \A t \in SettingsNames \ {s} : fs'.local[t] = fs.local[t]
            /\ \A k \in 1..Len(log) :
                 log[k].stage = "install"
                   => (/\ fs'.local[s] # "absent"
                       /\ fs.local[s] = "absent"
                            => (/\ fs'.local[s] = "bundled"
                                /\ \E j \in 1..(k - 1) :
                                     /\ log[j].stage = "copy-profile"
                                     /\ log[j].cmd = Root \o "/tools/conan/" \o s)
                       /\ log[k].cmd \in DOMAIN PassesLocalProfile
                       /\ PassesLocalProfile[log[k].cmd][s]) ]_vars

\* A build that copied the bundled profile into the project and then spawned
\* install.
C14_Witness ==
  /\ last.op = "build"
  /\ last.name = DefaultSettings
  /\ HasEvent(last.log, "copy-profile", TRUE)
  /\ \E k \in 1..Len(last.log) : last.log[k].stage = "install"
  /\ fs.local[DefaultSettings] = "bundled"

-----------------------------------------------------------------------------
(* C15 *)

\* The extra options build is called with: none by the build command, one by
\* clang-tidy and by the sanitizers.
CMakeOptions == {<<>>, <<"-DANALYSIS=clang-tidy">>, <<"-DSANITIZER=asan">>}

DirectoryKeys == {"root-directory", "build-directory"}

CommandKeys == {"command-1", "command-2", "command-3"}

\* C15: from every directory state a command can start in, for every
\* settings name, extra options and outcomes of the external processes, the
\* build with verbose and the build without it spawn the same commands, do
\* the same steps, leave the same directory and return the same code and
\* message.  On SUCCESS the detail map without verbose is
\* {root-directory, build-directory}; with verbose it holds the same two
\* entries and exactly the three command lines that were spawned, in order.
\* On any other result the detail maps are equal.
C15_VerboseNoEffect ==
  Idle =>
    \A s \in SettingsNames, opts \in CMakeOptions, env \in BuildEnvs :
      LET quiet == Build(fs, s, opts, FALSE, env)
          loud == Build(fs, s, opts, TRUE, env)
          spawned == Spawns(loud.log)
      IN /\ loud.fs = quiet.fs
         /\ loud.exc = quiet.exc
         /\ loud.log = quiet.log
         /\ loud.result.code = quiet.result.code
         /\ loud.result.message = quiet.result.message
         /\ ~Ok(quiet.result) => loud.result.info = quiet.result.info
         /\ Ok(quiet.result)
              => (/\ DOMAIN quiet.result.info = DirectoryKeys
                  /\ DOMAIN loud.result.info = DirectoryKeys \cup CommandKeys
                  /\ \A k \in DirectoryKeys :
                       loud.result.info[k] = quiet.result.info[k]
                  /\ Len(spawned) = 3
                  /\ loud.result.info["command-1"] = spawned[1].cmd
                  /\ loud.result.info["command-2"] = spawned[2].cmd
                  /\ loud.result.info["command-3"] = spawned[3].cmd)

\* A verbose build that returned SUCCESS with the three command lines.
C15_Witness ==
  /\ last.op = "build"
  /\ last.verbose
  /\ last.result.code = SUCCESS
  /\ DOMAIN last.result.info = DirectoryKeys \cup CommandKeys

-----------------------------------------------------------------------------
(* C16 *)

Sanitizers == {"asan", "msan", "tsan"}

IsCleanStep(e) == e.stage \in {"clean", "rmtree", "remove"}

IsBuildStep(e) ==
  e.stage \in {"copy-profile", "install", "toolchain-check", "configure",
               "compile", "build-returned"}

\* C16: in a run of clang-tidy or of a sanitizer that passed validation,
\* clean is the first step and all of it precedes every step of the build,
\* so the build starts without a build directory and without a root
\* compile_commands.json: afterwards no build/<settings> of another settings
\* name exists, and the toolchain file, the compile_commands.json (in the
\* build directory and in the root) and the executables exist only if this
\* call's own install, configure, compile stage wrote them.  clang-tidy
\* runs no executable; a sanitizer runs executables only after its build
\* returned SUCCESS.
C16_CleanBeforeBuild ==
  (/\ last.op = "run"
   /\ last.name \in {"clang-tidy"} \cup Sanitizers
   /\ last.log # <<>>)
  => LET log == last.log
     IN /\ log[1].stage = "clean"
        /\ \A i, j \in 1..Len(log) :
             (IsCleanStep(log[i]) /\ (IsBuildStep(log[j]) \/ IsExec(log[j])))
               => i < j
        /\ \A s \in SettingsNames \ {DefaultSettings} : fs.sub[s] = NoSub
        /\ fs.sub[DefaultSettings].toolchain => HasEvent(log, "install", TRUE)
        /\ fs.sub[DefaultSettings].cc => HasEvent(log, "configure", TRUE)
        /\ fs.exes > 0 => HasEvent(log, "compile", TRUE)
        /\ fs.rootcc # "absent"
             => (/\ fs.rootcc = DefaultSettings
                 /\ HasEvent(log, "build-returned", TRUE))
        /\ last.name = "clang-tidy" => Execs(log) = <<>>
        /\ \A j \in 1..Len(log) :
             IsExec(log[j])
               => \E i \in 1..(j - 1) :
                    log[i].stage = "build-returned" /\ log[i].rc = 0

\* A sanitizer run that removed an earlier build directory, built and then
\* ran a test executable.
C16_Witness ==
  /\ last.op = "run"
  /\ last.name = "asan"
  /\ HasEvent(last.log, "rmtree", TRUE)
  /\ HasEvent(last.log, "build-returned", TRUE)
  /\ Execs(last.log) # <<>>

-----------------------------------------------------------------------------
(* C17 *)

\* The root compile_commands.json the build of a call starts with: none
\* after the clean of clang-tidy and the sanitizers.
RootCompileCommandsAtBuild(f, call) ==
  IF call.op = "run" /\ call.name \in {"clang-tidy"} \cup Sanitizers
  THEN "absent" ELSE f.rootcc

\* C17: after a build that returned SUCCESS (called directly or inside a
\* run), if build/<settings>/compile_commands.json exists the root
\* compile_commands.json is a copy of it; if it does not exist, the build
\* has returned SUCCESS all the same and the root compile_commands.json is
\* as it was when the build started.
C17_CompileCommandsPublished ==
  [][ (/\ Idle
       /\ last'.op \in {"build", "run"}
       /\ HasEvent(last'.log, "build-returned", TRUE))
      => LET s == BuiltName(last')
         IN /\ fs'.sub[s].cc => fs'.rootcc = s
            /\ ~fs'.sub[s].cc => fs'.rootcc = RootCompileCommandsAtBuild(fs, last') ]_vars

\* A successful build of the default settings, in a project where another
\* settings name has been built as well, after which the root
\* compile_commands.json is the one of the default settings.
C17_Witness ==
  /\ last.op = "build"
  /\ last.name = DefaultSettings
  /\ last.result.code = SUCCESS
  /\ fs.sub[DefaultSettings].cc
  /\ fs.sub[LocalSettings].cc
  /\ fs.rootcc = DefaultSettings

-----------------------------------------------------------------------------
(* C18 *)

\* The root as create leaves an empty one: the template and nothing else.
AfterScaffold(f) ==
  /\ f.cmake = TemplateCMake
  /\ f.conan
  /\ \A s \in SettingsNames : f.local[s] = "absent"
  /\ ~f.build
  /\ f.rootcc = "absent"

\* The scaffolded root after a successful build of the default settings.
AfterDefaultBuild(f) ==
  /\ f.cmake = TemplateCMake
  /\ f.conan
  /\ f.local[DefaultSettings] = "bundled"
  /\ f.build
  /\ f.sub[DefaultSettings].exists
  /\ f.sub[DefaultSettings].toolchain

SixTools == {"clang-tidy", "gtest", "benchmark", "asan", "msan", "tsan"}

\* C18: create on an empty root returns SUCCESS and leaves the project
\* descriptor, so that info reports AVAILABLE; on that root a build of the
\* default settings in which every command exits 0 and install writes the
\* toolchain file returns SUCCESS and build/<settings> exists; on the root
\* so built, run with each of the six tools passes validation and executes
\* its procedure (clean first for clang-tidy and the sanitizers, then the
\* build in every procedure).
C18_EndToEnd ==
  [][ /\ (Idle /\ fs = EmptyDirectory /\ last'.op = "create")
           => (/\ ~last'.exc
               /\ last'.result.code = SUCCESS
               /\ fs'.cmake # "absent"
               /\ AfterScaffold(fs')
               /\ ~Info(fs').exc
               /\ Info(fs').status = AVAILABLE)
      /\ (/\ Idle
          /\ AfterScaffold(fs)
          /\ last'.op = "build"
          /\ last'.name = DefaultSettings
          /\ \A k \in 1..Len(last'.log) : IsSpawn(last'.log[k]) => last'.log[k].rc = 0
          /\ fs'.sub[DefaultSettings].toolchain)
           => (/\ ~last'.exc
               /\ last'.result.code = SUCCESS
               /\ Len(Spawns(last'.log)) = 3
               /\ fs'.build
               /\ fs'.sub[DefaultSettings].exists
               /\ AfterDefaultBuild(fs'))
      /\ (/\ Idle
          /\ AfterDefaultBuild(fs)
          /\ last'.op = "run"
          /\ last'.name \in SixTools)
           => (/\ ~last'.exc
               /\ last'.result.message # "Unknown tool"
               /\ last'.log # <<>>
               /\ (last'.log[1].stage = "clean")
                    = (last'.name \in {"clang-tidy"} \cup Sanitizers)
               /\ \E k \in 1..Len(last'.log) : last'.log[k].stage = "install") ]_vars

\* The last step of the sequence: a benchmark run on the scaffolded and
\* built project that ran a benchmark executable.
C18_Witness ==
  /\ last.op = "run"
  /\ last.name = "benchmark"
  /\ AfterDefaultBuild(fs)
  /\ \A s \in SettingsNames \ {DefaultSettings} : fs.local[s] = "absent"
  /\ HasEvent(last.log, "build-returned", TRUE)
  /\ Execs(last.log) # <<>>

-----------------------------------------------------------------------------
(* C19 *)

\* The stage a failed build stopped at: the stage whose step failed, or the
\* validation of the settings name when no stage was reached.
StoppedAt(log) ==
  IF \E k \in 1..Len(log) : IsBuildStage(log[k]) /\ log[k].rc # 0
  THEN CHOOSE st \in {"install", "toolchain-check", "configure", "compile"} :
         HasEvent(log, st, FALSE)
  ELSE "settings"

\* C19 (as claimed): the code and message of a failed build tell the stage
\* that failed: whenever a build fails, every build from the same directory
\* state that fails with the same code and the same message has stopped at
\* the same stage (rejected settings name, install, missing toolchain file,
\* configure, compile).
C19_StageSpecificResults ==
  [][ (Idle /\ last'.op = "build" /\ ~last'.exc /\ ~Ok(last'.result))
      => \A s \in SettingsNames, env \in BuildEnvs :
           LET other == Build(fs, s, <<>>, FALSE, env)
           IN (/\ ~other.exc
               /\ other.result.code = last'.result.code
               /\ other.result.message = last'.result.message)
                => StoppedAt(other.log) = StoppedAt(last'.log) ]_vars

-----------------------------------------------------------------------------
(* C20 *)

\* The lengths n for which the last n characters of s are a token (word
\* characters only) with "__" right before it and something before that.
TokenLengths(s) ==
  {n \in 1..Len(s) :
     /\ n + 3 <= Len(s)
     /\ SubSeq(s, Len(s) - n - 1, Len(s) - n) = "__"
     /\ \A j \in (Len(s) - n + 1)..Len(s) : CharAt(s, j) \in WordChars}

\* The trailing token of s: the shortest such ending; none gives "".
TrailingToken(s) ==
  IF TokenLengths(s) = {} THEN ""
  ELSE LET n == CHOOSE k \in TokenLengths(s) : \A m \in TokenLengths(s) : k <= m
       IN SubSeq(s, Len(s) - n + 1, Len(s))

\* r is t with every lower-case letter replaced by its capital and every
\* other character kept.
IsUpperCased(r, t) ==
  /\ Len(r) = Len(t)
  /\ \A j \in 1..Len(t) :
       IF \E k \in 1..Len(Lower) : CharAt(Lower, k) = CharAt(t, j)
       THEN \E k \in 1..Len(Lower) :
              CharAt(Lower, k) = CharAt(t, j) /\ CharAt(Upper, k) = CharAt(r, j)
       ELSE CharAt(r, j) = CharAt(t, j)

\* Whether a configure command line sets CMAKE_BUILD_TYPE to the build type
\* of s, computed once for the command lines build can spawn.
CarriesBuildType ==
  [c \in {Cmd2(t, o) : t \in SettingsNames,
                       o \in CMakeOptions \cup {<<"-DSANITIZER=msan">>,
                                                <<"-DSANITIZER=tsan">>}} |->
     [s \in SettingsNames |->
        Contains(c, "cmake -DCMAKE_BUILD_TYPE=" \o BuildType(s)
                      \o " -DCMAKE_TOOLCHAIN_FILE=")]]

\* C20: __build_type(name) is the trailing "__<token>" of the name, with
\* at least one character before it, upper-cased, and the empty string when
\* the name has no such ending; the configure command of a build carries
\* the build type of the settings name the build was called with; and a
\* build whose build type is empty succeeds whenever its commands exit 0
\* and install writes the toolchain file.
C20_BuildTypeFromName ==
  [][ /\ last'.op = "__build_type"
           => IsUpperCased(last'.result.build_type, TrailingToken(last'.name))
      /\ (Idle /\ last'.op \in {"build", "run"})
           => \A k \in 1..Len(last'.log) :
                last'.log[k].stage = "configure"
                  => (/\ last'.log[k].cmd \in DOMAIN CarriesBuildType
                      /\ CarriesBuildType[last'.log[k].cmd][BuiltName(last')])
      /\ (/\ Idle
          /\ last'.op = "build"
          /\ Accepted(last')
          /\ TrailingToken(last'.name) = ""
          /\ \A k \in 1..Len(last'.log) : IsSpawn(last'.log[k]) => last'.log[k].rc = 0
          /\ fs'.sub[last'.name].toolchain)
           => (/\ last'.result.code = SUCCESS
               /\ HasEvent(last'.log, "configure", TRUE)) ]_vars

\* __build_type applied to a name with two "__": the last token, in
\* capitals.
C20_Witness ==
  /\ last.op = "__build_type"
  /\ last.name = "a__B7__a"
  /\ last.result.build_type = "A"

\* A build with a settings name that gives the empty build type, which
\* returned SUCCESS.
C20_EmptyBuildTypeBuilt ==
  /\ last.op = "build"
  /\ last.name = LocalSettings
  /\ TrailingToken(last.name) = ""
  /\ last.result.code = SUCCESS

-----------------------------------------------------------------------------
(* C21 *)

\* A call that returned the result of a rejected name.
RejectedName(call) ==
  /\ ~call.exc
  /\ call.result.code = ERROR_INVALID_CONFIG
  /\ call.result.message \in {"Unknown tool", "Unknown settings"}

\* C21: whenever run(tool), for any tool, returns ERROR_INVALID_CONFIG with
\* "Unknown tool" or "Unknown settings", the call has spawned no process and
\* the directory (the build directory and the root compile_commands.json
\* included) is as it was before the call.
C21_RunRejectsBeforeMutation ==
  [][ (Idle /\ last'.op = "run" /\ RejectedName(last'))
      => (/\ Spawns(last'.log) = <<>>
          /\ fs' = fs) ]_vars

\* run("asan") rejected on a directory that has lost its CMakeLists.txt and
\* still holds a build directory and a published compile_commands.json.
C21_Witness ==
  /\ last.op = "run"
  /\ last.name = "asan"
  /\ RejectedName(last)
  /\ fs.build
  /\ fs.rootcc # "absent"

-----------------------------------------------------------------------------
(* C22 *)

\* The stage a build that passed validation failed at; "none" for a build
\* that was rejected, raised or succeeded.
FailedAt(call) ==
  IF call.exc \/ Ok(call.result) THEN "none"
  ELSE IF HasEvent(call.log, "compile", FALSE) THEN "compile"
  ELSE IF HasEvent(call.log, "configure", FALSE) THEN "configure"
  ELSE IF HasEvent(call.log, "toolchain-check", FALSE) THEN "toolchain-check"
  ELSE IF HasEvent(call.log, "install", FALSE) THEN "install"
  ELSE "none"

\* Nothing that was in directory f is missing from directory g.
NothingDeleted(f, g) ==
  /\ f.cmake # "absent" => g.cmake = f.cmake
  /\ f.conan => g.conan
  /\ \A s \in SettingsNames :
       /\ f.local[s] # "absent" => g.local[s] = f.local[s]
       /\ f.sub[s].exists => g.sub[s].exists
       /\ f.sub[s].toolchain => g.sub[s].toolchain
       /\ f.sub[s].cc => g.sub[s].cc
  /\ f.build => g.build
  /\ f.rootcc # "absent" => g.rootcc # "absent"

\* Directories f and g differ at most in tools/conan/<settings>, in
\* build/<settings> (with build itself, which makedirs creates on the way)
\* and in the root compile_commands.json.
SameOutside(f, g, settings) ==
  /\ g.cmake = f.cmake
  /\ g.conan = f.conan
  /\ \A s \in SettingsNames \ {settings} :
       g.local[s] = f.local[s] /\ g.sub[s] = f.sub[s]
  /\ settings # DefaultSettings => g.exes = f.exes
  /\ g.build = (f.build \/ g.sub[settings].exists)

\* C22: build rolls nothing back and deletes nothing.  A build that passed
\* validation and then failed at install, at the toolchain-file check, at
\* configure or at compile leaves the profile it copied to
\* tools/conan/<settings> and the build/<settings> directory it created in
\* place; and every build, whatever it returns, leaves everything outside
\* tools/conan/<settings>, build/<settings> and the root
\* compile_commands.json as it was.
C22_NoRollback ==
  [][ (Idle /\ last'.op = "build")
      => (/\ NothingDeleted(fs, fs')
          /\ SameOutside(fs, fs', last'.name)
          /\ FailedAt(last') # "none"
               => (/\ fs'.local[last'.name] # "absent"
                   /\ HasEvent(last'.log, "copy-profile", TRUE)
                        => (fs.local[last'.name] = "absent"
                            /\ fs'.local[last'.name] = "bundled")
                   /\ fs'.build
                   /\ fs'.sub[last'.name].exists)) ]_vars

\* A build that copied the bundled profile, created its build directory and
\* then failed at compile: both are still there.
C22_Witness ==
  /\ last.op = "build"
  /\ FailedAt(last) = "compile"
  /\ HasEvent(last.log, "copy-profile", TRUE)
  /\ fs.local[last.name] = "bundled"
  /\ fs.sub[last.name].exists
  /\ ~fs.sub[last.name].cc

-----------------------------------------------------------------------------
(* C23 *)

\* C23: the root compile_commands.json is written only by a build whose
\* compile command exited 0: a step that leaves a compile_commands.json in
\* the root that was not there before is a call whose compile exited 0, and
\* the file is that build's.  A build that returns anything but SUCCESS (or
\* raises) leaves the root compile_commands.json exactly as it was, so after
\* a failed build that follows a successful one the root file is still the
\* earlier build's.
C23_PublishedOnlyAfterCompile ==
  [][ /\ (fs'.rootcc # fs.rootcc /\ fs'.rootcc # "absent")
           => (/\ last'.op \in {"build", "run"}
               /\ HasEvent(last'.log, "compile", TRUE)
               /\ fs'.rootcc = BuiltName(last'))
      /\ (Idle /\ last'.op = "build" /\ last'.result.code # SUCCESS)
           => fs'.rootcc = fs.rootcc ]_vars

\* A build of the local profile failed at compile after its configure wrote
\* a compile_commands.json into its build directory; the root still holds
\* the one published by the earlier build of the default settings.
C23_Witness ==
  /\ last.op = "build"
  /\ last.name = LocalSettings
  /\ HasEvent(last.log, "compile", FALSE)
  /\ fs.sub[LocalSettings].cc
  /\ fs.rootcc = DefaultSettings

-----------------------------------------------------------------------------
(* C24 *)

\* The extra option the build inside a run is called with.
OptionsOf(tool) ==
  IF tool = "clang-tidy" THEN <<"-DANALYSIS=clang-tidy">>
  ELSE IF tool \in Sanitizers THEN <<"-DSANITIZER=" \o tool>>
  ELSE <<>>

\* Every entry of detail map a is an entry of detail map b.
Carried(a, b) ==
  \A k \in DOMAIN a : k \in DOMAIN b /\ b[k] = a[k]

\* C24: from every directory state a command can start in and for every
\* outcome of the external processes, run("gtest") and run("benchmark") with
\* verbose and without it do the same steps, leave the same directory and
\* return the same code, message and detail map, which never holds a
\* command-1..3 entry.  For run("clang-tidy") and the sanitizers, when the
\* build inside returned SUCCESS, every entry of that build's detail map is
\* in the returned detail map, with verbose the three command lines that
\* were spawned among them, and without verbose none of them.
C24_VerboseInRun ==
  Idle =>
    /\ \A tool \in {"gtest", "benchmark"} :
         \A env \in RunEnvsTable[tool] :
           LET quiet == Run(fs, tool, FALSE, env)
               loud == Run(fs, tool, TRUE, env)
           IN /\ loud.fs = quiet.fs
              /\ loud.exc = quiet.exc
              /\ loud.log = quiet.log
              /\ loud.result = quiet.result
              /\ DOMAIN loud.result.info \cap CommandKeys = {}
    /\ \A tool \in {"clang-tidy"} \cup Sanitizers :
         \A env \in RunEnvsTable[tool] :
           LET quiet == Run(fs, tool, FALSE, env)
               loud == Run(fs, tool, TRUE, env)
               built == Build(Clean(fs).fs, DefaultSettings, OptionsOf(tool), TRUE, env)
               spawned == Spawns(loud.log)
           IN /\ loud.fs = quiet.fs
              /\ loud.exc = quiet.exc
              /\ loud.log = quiet.log
              /\ loud.result.code = quiet.result.code
              /\ loud.result.message = quiet.result.message
              /\ HasEvent(loud.log, "build-returned", TRUE)
                   => (/\ Ok(built.result)
                       /\ Carried(built.result.info, loud.result.info)
                       /\ DirectoryKeys \cup CommandKeys \subseteq DOMAIN loud.result.info
                       /\ Len(spawned) >= 3
                       /\ loud.result.info["command-1"] = spawned[1].cmd
                       /\ loud.result.info["command-2"] = spawned[2].cmd
                       /\ loud.result.info["command-3"] = spawned[3].cmd
                       /\ DOMAIN quiet.result.info = DOMAIN loud.result.info \ CommandKeys
                       /\ Carried(quiet.result.info, loud.result.info))
              /\ ~HasEvent(loud.log, "build-returned", TRUE)
                   => loud.result = quiet.result

\* A verbose run of gtest whose build succeeded and whose executables ran:
\* the detail map holds their marks and no command line.
C24_Witness ==
  /\ last.op = "run"
  /\ last.name = "gtest"
  /\ last.verbose
  /\ HasEvent(last.log, "exec", TRUE)
  /\ Marks(last.result.info) # {}
  /\ DOMAIN last.result.info \cap CommandKeys = {}

\* A verbose run of a sanitizer whose executables ran: the detail map holds
\* their marks and the three command lines of the build.
C24_CarriedIntoSanitizerRun ==
  /\ last.op = "run"
  /\ last.name = "asan"
  /\ last.verbose
  /\ HasEvent(last.log, "exec", FALSE)
  /\ Marks(last.result.info) # {}
  /\ CommandKeys \subseteq DOMAIN last.result.info

====
